---- MODULE Spec2Model ----
(***************************************************************************)
(* A model of lshbox::laPcaLsh (the PCA/ITQ hash index) and of the         *)
(* selection() sampler of lshbox/utils.h.                                  *)
(*                                                                         *)
(* C++ vectors are TLA+ sequences, so the 0-based index i of the source is *)
(* i + 1 here; bucket ids and dataset row numbers keep their value.        *)
(* Floats are modelled by small integers: every product and sum the model  *)
(* forms is exact, and only the sign of a projection is ever observed.     *)
(***************************************************************************)
EXTENDS Integers, Sequences, FiniteSets, TLC

(***************************************************************************)
(* Bounds of the model.                                                    *)
(***************************************************************************)
MaxL == 2
MaxRows == 2
MaxBuckets == 2
MaxQuota == 2
MaxSelN == 3
MaxTrainL == 3

VARIABLES
    param,      \* laPcaLsh::param
    tables,     \* laPcaLsh::tables   : per table, bucket id -> member list
    rndArray,   \* laPcaLsh::rndArray : per table, the random index array
    pcsAll,     \* laPcaLsh::pcsAll   : per table, the projection basis
    proc,       \* the process: "running", "exited" (exit(0)), "crashed"
    file,       \* the index file on disk: NoFile or its sequence of fields
    loaded,     \* a second, freshly constructed index that load() filled
    qpc,        \* the caller's place in a query: "idle", or inside KItemByProber
    numItems,   \* KItemByProber's numItems (the quota)
    buckets,    \* prober: how many buckets it can still offer
    visited,    \* prober: the items passed to prober(idx), in order
    probePair,  \* KItemByProber's probePair = <table, bucketId>
    numProbed,  \* the value the last probe() returned
    spc,        \* selection: the place of the call
    sel_n,      \* selection: n
    sel_k,      \* selection: k
    selected,   \* selection: vector<bool> selected
    numSelected,    \* selection: numSelected
    idxToSelected,  \* selection: idxToSelected
    target,     \* selection: target
    tpc,        \* trainAll: the place of the driver
    batchSize,  \* trainAll: batchSize
    batch,      \* trainAll: batch
    ti,         \* trainAll: the index i of the spawn and join loops
    threads,    \* trainAll: std::vector<std::thread> threads (0: not joinable)
    workers,    \* the threads of execution ever started, with their basis slot
    cout,       \* what trainAll has written to std::cout
    pth,        \* a second thread calling probe: its place and locals
    stat        \* getMeanAndSTD: the place of the call and its locals

ixVars == <<param, tables, rndArray, pcsAll>>
ioVars == <<proc, file, loaded>>
qVars == <<qpc, numItems, buckets, visited, probePair, numProbed>>
selVars == <<spc, sel_n, sel_k, selected, numSelected, idxToSelected, target>>
trVars == <<tpc, batchSize, batch, ti, threads, workers, cout>>
vars == <<param, tables, rndArray, pcsAll, proc, file, loaded,
          qpc, numItems, buckets, visited, probePair, numProbed,
          spc, sel_n, sel_k, selected, numSelected, idxToSelected, target,
          tpc, batchSize, batch, ti, threads, workers, cout, pth, stat>>

(***************************************************************************)
(* Data: vectors of dimension 2 with coordinates in {-1, 0, 1}.            *)
(***************************************************************************)
VecList == <<<<1, 0>>, <<-1, -1>>, <<0, 1>>>>
Vecs == {VecList[i] : i \in DOMAIN VecList}
DataDim == Len(VecList[1])

\* The dataset (a Matrix): row i of the first n rows.
DataRow(i) == VecList[((i - 1) % Len(VecList)) + 1]
Matrix(n) == [i \in 1..n |-> DataRow(i)]
Datasets == {Matrix(n) : n \in 1..MaxRows}

\* The directions the eigen solver may return as principal components.
Directions == <<<<1, 0>>, <<0, 1>>, <<1, -1>>>>

\* The code length N is at most the dimension (the eigen solver has D columns).
MaxN == DataDim
MaxItems == MaxRows
MaxRnd == MaxN

EmptyMap == <<>>

\* Parameter as default-constructed (all fields 0).
DefaultParam == [M |-> 0, L |-> 0, D |-> 0, N |-> 0, S |-> 0, I |-> 0]

\* No file on disk, and a file holding the given fields.  cut is the number of
\* bytes missing from the end of the file's last field.
NoFile == [exists |-> FALSE, fields |-> <<>>, cut |-> 0]
OnDisk(fields) == [exists |-> TRUE, fields |-> fields, cut |-> 0]

\* A freshly constructed index on which load() has not returned yet.
NotLoaded ==
    [done |-> FALSE, param |-> DefaultParam, tables |-> <<>>, rndArray |-> <<>>, pcsAll |-> <<>>]

\* The parameters a caller passes to reset().
Params ==
    {[M |-> 2, L |-> l, D |-> DataDim, N |-> n, S |-> 1, I |-> 0] :
        l \in 1..MaxL, n \in 1..MaxN}

(***************************************************************************)
(* Helpers for std::vector and std::unordered_map.                         *)
(***************************************************************************)
Resize(vec, n, dflt) == [i \in 1..n |-> IF i <= Len(vec) THEN vec[i] ELSE dflt]

Put(map, key, val) ==
    [b \in (DOMAIN map) \cup {key} |-> IF b = key THEN val ELSE map[b]]

\* A push_back that replaces the bucket instead of appending to it.
PushBackReplacing(map, key, member) == Put(map, key, <<member>>)

PushBack(map, key, member) ==
    Put(map, key, IF key \in DOMAIN map THEN Append(map[key], member) ELSE <<member>>)

RECURSIVE Flatten(_)
Flatten(seqs) == IF seqs = <<>> THEN <<>> ELSE Head(seqs) \o Flatten(Tail(seqs))

RECURSIVE SumSeq(_)
SumSeq(s) == IF s = <<>> THEN 0 ELSE Head(s) + SumSeq(Tail(s))

Pow2(n) == 2 ^ n

\* Number of members stored in one bucket map.
RECURSIVE TableCount(_)
TableCount(tbl) ==
    IF DOMAIN tbl = {} THEN 0
    ELSE LET b == CHOOSE x \in DOMAIN tbl : TRUE
         IN Len(tbl[b]) + TableCount([x \in (DOMAIN tbl) \ {b} |-> tbl[x]])

(***************************************************************************)
(* Hasher: getHashFloats, quantization, getHashBits, getHashVal.           *)
(***************************************************************************)
\* domin_pc[i] += domin[j] * pcsAll[k][i][j], j over the row's own size.
Dot(row, domin) == SumSeq([j \in 1..Len(row) |-> domin[j] * row[j]])

getHashFloats(pcs, domin) == [i \in 1..Len(pcs) |-> Dot(pcs[i], domin)]

\* if (hashFloats[i] >= 0)
QuantBit(f) == IF f >= 0 THEN 1 ELSE 0

quantization(hashFloats) == [i \in 1..Len(hashFloats) |-> QuantBit(hashFloats[i])]

getHashBits(pcs, domin) == quantization(getHashFloats(pcs, domin))

\* if (product > 0) hashVal += 1
ValBit(product) == IF product > 0 THEN 1 ELSE 0

\* hashVal <<= 1; hashVal += bit, over i = 0 .. size-1.  BIDTYPE has 64 bits;
\* with at most MaxN rows the shift never leaves them.
\* A packing loop that shifts by two bits per row.
RECURSIVE ShiftInByTwo(_, _, _)
ShiftInByTwo(hashVal, bits, i) ==
    IF i > Len(bits) THEN hashVal ELSE ShiftInByTwo(hashVal * 4 + bits[i], bits, i + 1)

RECURSIVE ShiftIn(_, _, _)
ShiftIn(hashVal, bits, i) ==
    IF i > Len(bits) THEN hashVal ELSE ShiftIn(hashVal * 2 + bits[i], bits, i + 1)

getHashVal(pcs, domin) ==
    LET domin_pc == getHashFloats(pcs, domin)
    IN ShiftIn(0, [i \in 1..Len(domin_pc) |-> ValBit(domin_pc[i])], 1)

(***************************************************************************)
(* reset: param = param_; the three vectors are resized to L (kept content *)
(* stays), and N fresh draws in [0, M) are pushed onto every rndArray[i].  *)
(***************************************************************************)
\* std::mt19937 rng(time(0)) and usArray(rng): the n-th draw of a generator is
\* a function of its seed, uniform over [0, M).
Seeds == {0, 1}
usArray(seed, n, M) == (seed + n) % M

\* for every rndArray[i] in turn: N times push_back(usArray(rng)).
PushDraws(rnd, param_, seed) ==
    [i \in 1..Len(rnd) |->
        rnd[i] \o [j \in 1..param_.N |-> usArray(seed, (i - 1) * param_.N + j, param_.M)]]

reset(param_) ==
    /\ proc = "running"
    /\ \A i \in 1..Len(rndArray) : Len(rndArray[i]) + param_.N <= MaxRnd
    /\ param' = param_
    /\ tables' = Resize(tables, param_.L, EmptyMap)
    /\ pcsAll' = Resize(pcsAll, param_.L, <<>>)
    /\ \E seed \in Seeds : rndArray' = PushDraws(Resize(rndArray, param_.L, <<>>), param_, seed)
    /\ UNCHANGED <<proc, file, loaded, qVars, selVars, trVars, pth, stat>>

(***************************************************************************)
(* trainSingleTable writes N rows of length D into its slot: the leading   *)
(* principal directions of the sample.  choice picks which ones.           *)
(***************************************************************************)
PcaBasis(p, choice) ==
    [i \in 1..p.N |-> Directions[((choice + i - 2) % Len(Directions)) + 1]]

\* The bases once the worker of every table in [0, L) has written its slot.
TrainedBases(pcs, p, choice) ==
    [k \in 1..Len(pcs) |-> IF k <= p.L THEN PcaBasis(p, choice + k - 1) ELSE pcs[k]]

\* trainAll as one step: every table in [0, L) gets a trained basis.
trainAll ==
    /\ proc = "running"
    /\ \E choice \in 1..Len(Directions) : pcsAll' = TrainedBases(pcsAll, param, choice)
    /\ UNCHANGED <<param, tables, rndArray, proc, file, loaded, qVars, selVars, trVars, pth, stat>>

(***************************************************************************)
(* insert / hash.                                                          *)
(***************************************************************************)
InsertInto(tbls, pcs, L, key, domin) ==
    [k \in 1..Len(tbls) |->
        IF k <= L THEN PushBack(tbls[k], getHashVal(pcs[k], domin), key) ELSE tbls[k]]

RECURSIVE HashRows(_, _, _, _, _)
HashRows(tbls, pcs, L, data, i) ==
    IF i > Len(data) THEN tbls
    ELSE HashRows(InsertInto(tbls, pcs, L, i - 1, data[i]), pcs, L, data, i + 1)

Room(n) == \A k \in 1..Len(tables) : TableCount(tables[k]) + n <= MaxItems

insert(key, domin) ==
    /\ proc = "running"
    /\ Room(1)
    /\ tables' = InsertInto(tables, pcsAll, param.L, key, domin)
    /\ UNCHANGED <<param, rndArray, pcsAll, proc, file, loaded, qVars, selVars, trVars, pth, stat>>

hash(data) ==
    /\ proc = "running"
    /\ Room(Len(data))
    /\ tables' = HashRows(tables, pcsAll, param.L, data, 1)
    /\ UNCHANGED <<param, rndArray, pcsAll, proc, file, loaded, qVars, selVars, trVars, pth, stat>>

(***************************************************************************)
(* save: the header, then per table the first N words of rndArray[i], the  *)
(* bucket count, every bucket (id, length, members) in the map's iteration *)
(* order, and N basis rows of D floats.  The file is its sequence of       *)
(* fields (a field is one unsigned, one BIDTYPE or one float).             *)
(***************************************************************************)
\* n elements read from &vec[0]: past the vector's end the read is undefined
\* and g stands for whatever it yields.
ReadRaw(vec, n, g) == [j \in 1..n |-> IF j <= Len(vec) THEN vec[j] ELSE g]

\* The keys of a map in ascending order.
RECURSIVE SortedKeys(_)
SortedKeys(S) ==
    IF S = {} THEN <<>>
    ELSE LET m == CHOOSE x \in S : \A y \in S : x <= y IN <<m>> \o SortedKeys(S \ {m})

Reverse(s) == [i \in 1..Len(s) |-> s[Len(s) + 1 - i]]

\* The order in which an unordered_map is iterated is unspecified: the model
\* iterates in ascending or in descending key order.
BucketOrders(tbl) == {SortedKeys(DOMAIN tbl), Reverse(SortedKeys(DOMAIN tbl))}

BucketFields(tbl, order) ==
    Flatten([b \in 1..Len(order) |-> <<order[b], Len(tbl[order[b]])>> \o tbl[order[b]]])

BasisFields(pcs, N, D, g) ==
    Flatten([j \in 1..N |-> ReadRaw(IF j <= Len(pcs) THEN pcs[j] ELSE <<>>, D, g)])

TableFields(ix, i, order, g) ==
    ReadRaw(ix.rndArray[i], ix.param.N, g)
    \o <<Cardinality(DOMAIN ix.tables[i])>>
    \o BucketFields(ix.tables[i], order)
    \o BasisFields(ix.pcsAll[i], ix.param.N, ix.param.D, g)

SaveFields(ix, orders, g) ==
    <<ix.param.M, ix.param.L, ix.param.D, ix.param.N, ix.param.S>>
    \o Flatten([i \in 1..ix.param.L |-> TableFields(ix, i, orders[i], g)])

\* Every read of save stays inside the vector it reads.
SaveInBounds(ix) ==
    \A i \in 1..ix.param.L :
        /\ Len(ix.rndArray[i]) >= ix.param.N
        /\ Len(ix.pcsAll[i]) >= ix.param.N
        /\ \A j \in 1..ix.param.N : Len(ix.pcsAll[i][j]) >= ix.param.D

SaveOrders(ix) ==
    {[i \in 1..ix.param.L |-> SortedKeys(DOMAIN ix.tables[i])],
     [i \in 1..ix.param.L |-> Reverse(SortedKeys(DOMAIN ix.tables[i]))]}

\* What an out-of-bounds read of save may yield.
Garbage == {0, 7}

Index == [param |-> param, tables |-> tables, rndArray |-> rndArray, pcsAll |-> pcsAll]

save ==
    /\ proc = "running"
    /\ \E orders \in SaveOrders(Index) :
          IF SaveInBounds(Index)
          THEN file' = OnDisk(SaveFields(Index, orders, 0)) /\ proc' = proc
          ELSE \/ \E g \in Garbage :
                    file' = OnDisk(SaveFields(Index, orders, g)) /\ proc' = proc
               \/ file' = OnDisk(<<>>) /\ proc' = "crashed"
    /\ UNCHANGED <<param, tables, rndArray, pcsAll, loaded, qVars, selVars, trVars, pth, stat>>

(***************************************************************************)
(* load, into a freshly constructed index.                                 *)
(***************************************************************************)
\* count times: read target and length, tables[i][target].resize(length),
\* read length members.
RECURSIVE ReadBuckets(_, _, _, _)
ReadBuckets(s, pos, count, tbl) ==
    IF count = 0 THEN [pos |-> pos, tbl |-> tbl]
    ELSE LET bucketTarget == s[pos]
             length == s[pos + 1]
         IN ReadBuckets(s, pos + 2 + length, count - 1,
                        Put(tbl, bucketTarget, SubSeq(s, pos + 2, pos + 1 + length)))

\* One iteration of the loop over i: rndArray[i], the buckets, pcsAll[i].
ReadTable(s, pos, p) ==
    LET rnd == SubSeq(s, pos, pos + p.N - 1)
        count == s[pos + p.N]
        bk == ReadBuckets(s, pos + p.N + 1, count, EmptyMap)
        pcs == [j \in 1..p.N |->
                   SubSeq(s, bk.pos + (j - 1) * p.D, bk.pos + j * p.D - 1)]
    IN [pos |-> bk.pos + p.N * p.D, rnd |-> rnd, tbl |-> bk.tbl, pcs |-> pcs]

RECURSIVE ReadTables(_, _, _, _)
ReadTables(s, pos, i, ix) ==
    IF i > ix.param.L THEN ix
    ELSE LET t == ReadTable(s, pos, ix.param)
         IN ReadTables(s, t.pos, i + 1,
                [ix EXCEPT !.rndArray[i] = t.rnd, !.tables[i] = t.tbl, !.pcsAll[i] = t.pcs])

LoadIndex(s) ==
    LET p == [DefaultParam EXCEPT !.M = s[1], !.L = s[2], !.D = s[3], !.N = s[4], !.S = s[5]]
    IN ReadTables(s, 6, 1,
           [done |-> TRUE,
            param |-> p,
            tables |-> Resize(<<>>, p.L, EmptyMap),
            rndArray |-> Resize(<<>>, p.L, <<>>),
            pcsAll |-> Resize(<<>>, p.L, <<>>)])

\* in.read of a float whose last byte is missing stores the three bytes there
\* are over the zero the resize left, and sets failbit, which load never
\* tests.  The missing byte holds the sign and the high exponent bits: the
\* value read has magnitude below 2^-125, the model's 0.
ShortRead(f) == 0

\* What the reads of load yield, field by field.
StreamFields(f) ==
    [i \in 1..Len(f.fields) |->
        IF i = Len(f.fields) /\ f.cut > 0 THEN ShortRead(f.fields[i]) ELSE f.fields[i]]

load ==
    /\ proc = "running"
    /\ IF ~file.exists
       THEN proc' = "exited" /\ loaded' = loaded
       ELSE proc' = proc /\ loaded' = LoadIndex(StreamFields(file))
    /\ UNCHANGED <<param, tables, rndArray, pcsAll, file, qVars, selVars, trVars, pth, stat>>

(***************************************************************************)
(* The prober (probing.h is not part of the sources: its four operations   *)
(* follow the prober capability of the specification).                     *)
(***************************************************************************)
getNumItemsProbed == Len(visited)
nextBucketExisted == buckets > 0
ProberVisit(vis, idx) == Append(vis, idx)

\* The <table, bucketId> pairs a prober may hand out.
ProbePairs == {<<t, b>> : t \in 0..(param.L - 1), b \in 0..(Pow2(param.N) - 1)}

(***************************************************************************)
(* probe(t, bucketId, prober).                                             *)
(***************************************************************************)
\* for (iter = begin; iter != end; ++iter) prober(*iter)
RECURSIVE VisitFromEnd(_, _, _)
VisitFromEnd(members, iter, vis) ==
    IF iter < 1 THEN vis
    ELSE VisitFromEnd(members, iter - 1, ProberVisit(vis, members[iter]))

VisitBackwards(members, iter, vis) == VisitFromEnd(members, Len(members), vis)

RECURSIVE VisitFrom(_, _, _)
VisitFrom(members, iter, vis) ==
    IF iter > Len(members) THEN vis
    ELSE VisitFrom(members, iter + 1, ProberVisit(vis, members[iter]))

\* A probe that takes every bucket id as present.
FoundAlways(tbl, bucketId) == TRUE

\* tables[t].find(bucketId) != tables[t].end()
Found(tbl, bucketId) == bucketId \in DOMAIN tbl

\* The map after tables[t][bucketId]: unordered_map::operator[] inserts an
\* empty bucket when the key is absent.
Subscript(tbl, bucketId) ==
    IF bucketId \in DOMAIN tbl THEN tbl ELSE Put(tbl, bucketId, <<>>)

\* The map after probe: tables[t][bucketId] is evaluated only when found.
ProbeTable(tbl, bucketId) ==
    IF Found(tbl, bucketId) THEN Subscript(tbl, bucketId) ELSE tbl

ProbeVisits(tbl, bucketId, vis) ==
    IF Found(tbl, bucketId) THEN VisitFrom(Subscript(tbl, bucketId)[bucketId], 1, vis) ELSE vis

ProbeCount(tbl, bucketId) ==
    IF Found(tbl, bucketId) THEN Len(Subscript(tbl, bucketId)[bucketId]) ELSE 0

probe(t, bucketId) ==
    /\ visited' = ProbeVisits(tables[t + 1], bucketId, visited)
    /\ numProbed' = ProbeCount(tables[t + 1], bucketId)
    /\ tables' = [tables EXCEPT ![t + 1] = ProbeTable(@, bucketId)]

\* A caller probes one bucket of one table.
CallProbe ==
    /\ proc = "running" /\ qpc = "idle"
    /\ Len(visited) < MaxRows
    /\ \E pair \in ProbePairs : probe(pair[1], pair[2])
    /\ UNCHANGED <<selVars, trVars, param, rndArray, pcsAll, ioVars, qpc, numItems, buckets,
                   probePair, pth, stat>>

(***************************************************************************)
(* KItemByProber(domin, prober, numItems).                                 *)
(***************************************************************************)
WhileEither(probed, quota, exists) == probed < quota \/ exists

\* while (prober.getNumItemsProbed() < numItems && prober.nextBucketExisted())
WhileCond(probed, quota, exists) == probed < quota /\ exists

CallKItemByProber ==
    /\ proc = "running" /\ qpc = "idle"
    /\ \E quota \in 0..MaxQuota : numItems' = quota
    /\ qpc' = "while"
    /\ UNCHANGED <<selVars, trVars, ixVars, ioVars, buckets, visited, probePair, numProbed, pth, stat>>

KWhile ==
    /\ qpc = "while"
    /\ qpc' = IF WhileCond(getNumItemsProbed, numItems, nextBucketExisted)
              THEN "getNextBID" ELSE "returned"
    /\ UNCHANGED <<selVars, trVars, ixVars, ioVars, numItems, buckets, visited, probePair, numProbed, pth, stat>>

KGetNextBID ==
    /\ qpc = "getNextBID"
    /\ \E pair \in ProbePairs : probePair' = pair
    /\ buckets' = buckets - 1
    /\ qpc' = "probe"
    /\ UNCHANGED <<selVars, trVars, ixVars, ioVars, numItems, visited, numProbed, pth, stat>>

KProbe ==
    /\ qpc = "probe"
    /\ probe(probePair[1], probePair[2])
    /\ qpc' = "while"
    /\ UNCHANGED <<selVars, trVars, param, rndArray, pcsAll, ioVars, numItems, buckets,
                   probePair, pth, stat>>

IoInit == proc = "running" /\ file = NoFile /\ loaded = NotLoaded

QInit ==
    /\ qpc = "idle" /\ numItems = 0 /\ buckets = 0 /\ visited = <<>>
    /\ probePair = <<0, 0>> /\ numProbed = 0

\* No call of selection and no call of trainAll is under way.
SelIdle ==
    /\ spc = "idle" /\ sel_n = 0 /\ sel_k = 0 /\ selected = <<>>
    /\ numSelected = 0 /\ idxToSelected = 0 /\ target = 0

TrainIdle ==
    /\ tpc = "idle" /\ batchSize = 1 /\ batch = 0 /\ ti = 0
    /\ threads = <<>> /\ workers = <<>> /\ cout = <<>>

\* The second thread is in no call of probe.
IdleProbe == [pc |-> "idle", t |-> 0, bucketId |-> 0, iter |-> 0, vis |-> <<>>, numProbed |-> 0]
ProbesIdle == pth = IdleProbe

\* No call of getMeanAndSTD is under way.
NoStat ==
    [pc |-> "idle", data |-> <<>>, dIdx |-> 0,
     sumPositive |-> <<>>, sumNegative |-> <<>>, countPositive |-> <<>>, countNegative |-> <<>>,
     stdPositive |-> <<>>, stdNegative |-> <<>>]
StatIdle == stat = NoStat

Init ==
    /\ param = DefaultParam
    /\ tables = <<>>
    /\ rndArray = <<>>
    /\ pcsAll = <<>>
    /\ IoInit
    /\ QInit
    /\ SelIdle
    /\ TrainIdle
    /\ ProbesIdle
    /\ StatIdle

\* The caller configures, trains and populates the index, then saves it; once
\* the file is written the index is only saved again or loaded elsewhere.
CallReset == file = NoFile /\ \E p \in Params : reset(p)
CallTrainAll == file = NoFile /\ trainAll
CallInsert == file = NoFile /\ \E key \in 0..(MaxRows - 1) : insert(key, DataRow(key + 1))
CallHash == file = NoFile /\ \E data \in Datasets : hash(data)

Next ==
    \/ CallReset
    \/ CallTrainAll
    \/ CallInsert
    \/ CallHash
    \/ save
    \/ load

Spec == Init /\ [][Next]_vars

(***************************************************************************)
(* Loading what a populated index saved: the file may be missing, intact,  *)
(* or one byte short.  A saved file of a populated index ends with the     *)
(* last float of the last basis.                                           *)
(***************************************************************************)
\* The file loses its last byte.
Truncate ==
    /\ file.exists /\ file.cut = 0 /\ Len(file.fields) > 0
    /\ file' = [file EXCEPT !.cut = 1]
    /\ UNCHANGED <<ixVars, proc, loaded, qVars, selVars, trVars, pth, stat>>

\* The index after reset(p), trainAll and hash(Matrix(n)).
Populated(p, choice, n) ==
    /\ param = p
    /\ rndArray = PushDraws(Resize(<<>>, p.L, <<>>), p, 0)
    /\ pcsAll = TrainedBases(Resize(<<>>, p.L, <<>>), p, choice)
    /\ tables = HashRows(Resize(<<>>, p.L, EmptyMap), pcsAll, p.L, Matrix(n), 1)

LoadInit ==
    /\ \E p \in Params, choice \in 1..Len(Directions), n \in 1..MaxRows : Populated(p, choice, n)
    /\ IoInit
    /\ QInit
    /\ SelIdle
    /\ TrainIdle
    /\ ProbesIdle
    /\ StatIdle

LoadNext ==
    \/ save
    \/ Truncate
    \/ load

SpecLoad == LoadInit /\ [][LoadNext]_vars

(***************************************************************************)
(* Queries on a populated index: the index after reset(p), trainAll and    *)
(* hash(Matrix(n)), and a prober that can offer a bounded number of        *)
(* buckets.                                                                *)
(***************************************************************************)
QueryInit ==
    /\ \E p \in Params, choice \in 1..Len(Directions), n \in 1..MaxRows : Populated(p, choice, n)
    /\ IoInit
    /\ qpc = "idle" /\ numItems = 0 /\ visited = <<>>
    /\ probePair = <<0, 0>> /\ numProbed = 0
    /\ buckets \in 0..MaxBuckets
    /\ SelIdle
    /\ TrainIdle
    /\ ProbesIdle
    /\ StatIdle

QueryNext ==
    \/ CallProbe
    \/ CallKItemByProber
    \/ KWhile
    \/ KGetNextBID
    \/ KProbe

SpecQuery == QueryInit /\ [][QueryNext]_vars

\* The thread that runs KItemByProber keeps running until the call returns.
FairSpecQuery ==
    SpecQuery /\ WF_vars(KWhile) /\ WF_vars(KGetNextBID) /\ WF_vars(KProbe)

(***************************************************************************)
(* probe(t, bucketId, prober) statement by statement, called with a prober *)
(* of its own on a second thread while the first thread probes or runs     *)
(* KItemByProber.                                                          *)
(***************************************************************************)
\* The call, and line 443.
PCall ==
    /\ proc = "running" /\ pth.pc = "idle"
    /\ \E pair \in ProbePairs :
          pth' = [IdleProbe EXCEPT !.pc = "find", !.t = pair[1], !.bucketId = pair[2]]
    /\ UNCHANGED <<ixVars, ioVars, qpc, numItems, buckets, visited, probePair, numProbed,
                   selVars, trVars, stat>>

\* line 444
PFind ==
    /\ pth.pc = "find"
    /\ pth' = [pth EXCEPT !.pc =
                  IF Found(tables[pth.t + 1], pth.bucketId) THEN "size" ELSE "returned"]
    /\ UNCHANGED <<ixVars, ioVars, qpc, numItems, buckets, visited, probePair, numProbed,
                   selVars, trVars, stat>>

\* line 446, and iter = tables[t][bucketId].begin() of line 447.
PSize ==
    /\ pth.pc = "size"
    /\ LET tbl == Subscript(tables[pth.t + 1], pth.bucketId)
       IN /\ tables' = [tables EXCEPT ![pth.t + 1] = tbl]
          /\ pth' = [pth EXCEPT !.numProbed = Len(tbl[pth.bucketId]), !.iter = 0, !.pc = "loop"]
    /\ UNCHANGED <<param, rndArray, pcsAll, ioVars, qpc, numItems, buckets, visited, probePair,
                   numProbed, selVars, trVars, stat>>

\* lines 447-450: iter != tables[t][bucketId].end(), prober(*iter), ++iter.
PLoop ==
    /\ pth.pc = "loop"
    /\ LET tbl == Subscript(tables[pth.t + 1], pth.bucketId)
           members == tbl[pth.bucketId]
       IN /\ tables' = [tables EXCEPT ![pth.t + 1] = tbl]
          /\ IF pth.iter < Len(members)
             THEN pth' = [pth EXCEPT !.vis = ProberVisit(@, members[pth.iter + 1]),
                                    !.iter = @ + 1]
             ELSE pth' = [pth EXCEPT !.pc = "returned"]
    /\ UNCHANGED <<param, rndArray, pcsAll, ioVars, qpc, numItems, buckets, visited, probePair,
                   numProbed, selVars, trVars, stat>>

\* line 453: the caller has the result and may probe again.
PReturn ==
    /\ pth.pc = "returned"
    /\ pth' = IdleProbe
    /\ UNCHANGED <<ixVars, ioVars, qpc, numItems, buckets, visited, probePair, numProbed,
                   selVars, trVars, stat>>

ProbesNext ==
    \/ PCall
    \/ PFind
    \/ PSize
    \/ PLoop
    \/ PReturn
    \/ CallProbe
    \/ CallKItemByProber
    \/ KWhile
    \/ KGetNextBID
    \/ KProbe

SpecProbes == QueryInit /\ [][ProbesNext]_vars

(***************************************************************************)
(* getMeanAndSTD(data), one dataset row per step.  A float that the code   *)
(* divides is kept as an exact fraction num / den; a float it takes the    *)
(* square root of is kept as the root of such a fraction.                  *)
(***************************************************************************)
Frac(num, den) == [num |-> num, den |-> den]

\* lines 347-359 and 382-387: N entries, all 0.
Zeros(n) == [i \in 1..n |-> Frac(0, 1)]
ZeroCounts(n) == [i \in 1..n |-> 0]

\* hashFloats[hfIdx] >= 0
NonNegative(f) == f >= 0

\* sums[hfIdx] += hashFloats[hfIdx], for the entries on the given side
AddFloats(sums, hashFloats, positive) ==
    [i \in 1..Len(sums) |->
        IF i <= Len(hashFloats) /\ NonNegative(hashFloats[i]) = positive
        THEN Frac(sums[i].num + hashFloats[i], sums[i].den) ELSE sums[i]]

\* counts[hfIdx]++, for the entries on the given side
AddCounts(counts, hashFloats, positive) ==
    [i \in 1..Len(counts) |->
        IF i <= Len(hashFloats) /\ NonNegative(hashFloats[i]) = positive
        THEN counts[i] + 1 ELSE counts[i]]

\* if (count[i] != 0) x[i] /= count[i]
DivideByCount(x, counts) ==
    [i \in 1..Len(x) |->
        IF counts[i] # 0 THEN Frac(x[i].num, x[i].den * counts[i]) ELSE x[i]]

\* stds[hfIdx] += (hashFloats[hfIdx] - mean[hfIdx]) ^ 2, for the entries on the
\* given side; with mean = m.num / m.den the square is
\* (h * m.den - m.num)^2 / m.den^2.
AddSquares(stds, means, hashFloats, positive) ==
    [i \in 1..Len(stds) |->
        IF i <= Len(hashFloats) /\ NonNegative(hashFloats[i]) = positive
        THEN LET d == hashFloats[i] * means[i].den - means[i].num
             IN Frac(stds[i].num + d * d, means[i].den * means[i].den)
        ELSE stds[i]]

\* x[i] = sqrt(x[i])
Sqrt(x) == [i \in 1..Len(x) |-> [sqrt |-> x[i]]]

\* assert(std[i] > 0): a root is positive exactly when its radicand is.
AssertPositive(std) == std.sqrt.num > 0

AssertionsHold(stdPositive, stdNegative) ==
    \A i \in 1..Len(stdPositive) :
        AssertPositive(stdPositive[i]) /\ AssertPositive(stdNegative[i])

\* lines 345-359
StatCall ==
    /\ proc = "running" /\ stat.pc = "idle"
    /\ \E data \in Datasets :
          stat' = [NoStat EXCEPT !.pc = "first", !.data = data, !.dIdx = 0,
                                 !.sumPositive = Zeros(param.N),
                                 !.sumNegative = Zeros(param.N),
                                 !.countPositive = ZeroCounts(param.N),
                                 !.countNegative = ZeroCounts(param.N)]
    /\ UNCHANGED <<ixVars, ioVars, qVars, selVars, trVars, pth>>

\* lines 361-373: one row of the first pass, or its end.
StatFirstPass ==
    /\ stat.pc = "first"
    /\ IF stat.dIdx # Len(stat.data)
       THEN LET hashFloats == getHashFloats(pcsAll[1], stat.data[stat.dIdx + 1])
            IN stat' = [stat EXCEPT
                   !.sumPositive = AddFloats(@, hashFloats, TRUE),
                   !.countPositive = AddCounts(@, hashFloats, TRUE),
                   !.sumNegative = AddFloats(@, hashFloats, FALSE),
                   !.countNegative = AddCounts(@, hashFloats, FALSE),
                   !.dIdx = @ + 1]
       ELSE stat' = [stat EXCEPT !.pc = "means"]
    /\ UNCHANGED <<ixVars, ioVars, qVars, selVars, trVars, pth>>

\* lines 374-387
StatMeans ==
    /\ stat.pc = "means"
    /\ stat' = [stat EXCEPT
           !.sumPositive = DivideByCount(@, stat.countPositive),
           !.sumNegative = DivideByCount(@, stat.countNegative),
           !.stdPositive = Zeros(param.N),
           !.stdNegative = Zeros(param.N),
           !.dIdx = 0,
           !.pc = "second"]
    /\ UNCHANGED <<ixVars, ioVars, qVars, selVars, trVars, pth>>

\* lines 388-397: one row of the second pass, or its end.
StatSecondPass ==
    /\ stat.pc = "second"
    /\ IF stat.dIdx < Len(stat.data)
       THEN LET hashFloats == getHashFloats(pcsAll[1], stat.data[stat.dIdx + 1])
            IN stat' = [stat EXCEPT
                   !.stdPositive = AddSquares(@, stat.sumPositive, hashFloats, TRUE),
                   !.stdNegative = AddSquares(@, stat.sumNegative, hashFloats, FALSE),
                   !.dIdx = @ + 1]
       ELSE stat' = [stat EXCEPT !.pc = "finish"]
    /\ UNCHANGED <<ixVars, ioVars, qVars, selVars, trVars, pth>>

\* lines 398-413.  A failing assert aborts the process; in a build with
\* NDEBUG the asserts are compiled out and the call returns.
StatFinish ==
    /\ stat.pc = "finish"
    /\ LET stdPositive == Sqrt(DivideByCount(stat.stdPositive, stat.countPositive))
           stdNegative == Sqrt(DivideByCount(stat.stdNegative, stat.countNegative))
           returned == [stat EXCEPT !.stdPositive = stdPositive,
                                    !.stdNegative = stdNegative,
                                    !.pc = "returned"]
       IN IF AssertionsHold(stdPositive, stdNegative)
          THEN stat' = returned /\ proc' = proc
          ELSE \/ stat' = [stat EXCEPT !.pc = "aborted"] /\ proc' = "aborted"
               \/ stat' = returned /\ proc' = proc
    /\ UNCHANGED <<ixVars, file, loaded, qVars, selVars, trVars, pth>>

\* result: sumPositive, sumNegative, stdPositive, stdNegative
StatResult == <<stat.sumPositive, stat.sumNegative, stat.stdPositive, stat.stdNegative>>

StatInit == LoadInit

StatNext ==
    \/ StatCall
    \/ StatFirstPass
    \/ StatMeans
    \/ StatSecondPass
    \/ StatFinish

SpecStats == StatInit /\ [][StatNext]_vars

(***************************************************************************)
(* selection(n, k) of lshbox/utils.h, one draw of usBits(rng) per step.    *)
(***************************************************************************)
\* std::uniform_int_distribution<unsigned> usBits(0, n - 1): with n = 0 the
\* upper end wraps to UINT_MAX, and every draw is past the empty vector.
usBits(n) == IF n = 0 THEN 0..MaxSelN ELSE 0..(n - 1)

InVector(sel, i) == i < Len(sel)

\* An inner loop that accepts the target without looking at selected[target].
NeverSelected(sel, t) == FALSE

\* selected[target] == true
IsSelected(sel, t) == sel[t + 1]

CountTrue(sel) == Cardinality({i \in 1..Len(sel) : sel[i]})

\* lines 21-27: the generator, vector<bool> selected(n, 0), numSelected = 0.
SelEnter ==
    /\ spc = "call"
    /\ selected' = [i \in 1..sel_n |-> FALSE]
    /\ numSelected' = 0
    /\ idxToSelected' = 0
    /\ spc' = "for"
    /\ UNCHANGED <<ixVars, ioVars, qVars, trVars, sel_n, sel_k, target, pth, stat>>

\* lines 29-38: one iteration of the sweep, or its end.
SelFor ==
    /\ spc = "for"
    /\ IF idxToSelected < Len(selected)
       THEN \E r \in usBits(sel_n) :
               LET hit == r < sel_k
                   num == IF hit THEN numSelected + 1 ELSE numSelected
               IN /\ selected' = IF hit THEN [selected EXCEPT ![idxToSelected + 1] = TRUE]
                                 ELSE selected
                  /\ numSelected' = num
                  /\ IF num = sel_k
                     THEN spc' = "while" /\ idxToSelected' = idxToSelected
                     ELSE spc' = "for" /\ idxToSelected' = idxToSelected + 1
       ELSE spc' = "while" /\ UNCHANGED <<selected, numSelected, idxToSelected>>
    /\ UNCHANGED <<ixVars, ioVars, qVars, trVars, sel_n, sel_k, target, pth, stat>>

\* lines 41-42: while (numSelected < k) { target = usBits(rng); ...
SelWhile ==
    /\ spc = "while"
    /\ IF numSelected < sel_k
       THEN spc' = "inner" /\ \E r \in usBits(sel_n) : target' = r
       ELSE spc' = "done" /\ target' = target
    /\ UNCHANGED <<ixVars, ioVars, qVars, trVars, sel_n, sel_k, selected, numSelected,
                   idxToSelected, pth, stat>>

\* lines 43-47 with target inside the vector.
SelInner ==
    /\ spc = "inner"
    /\ InVector(selected, target)
    /\ IF IsSelected(selected, target)
       THEN /\ \E r \in usBits(sel_n) : target' = r
            /\ UNCHANGED <<spc, selected, numSelected>>
       ELSE /\ selected' = [selected EXCEPT ![target + 1] = TRUE]
            /\ numSelected' = numSelected + 1
            /\ spc' = "while"
            /\ target' = target
    /\ UNCHANGED <<ixVars, ioVars, qVars, trVars, sel_n, sel_k, idxToSelected, pth, stat>>

\* lines 43-47 with target past the end of the vector: the read of
\* selected[target] is undefined.  It may yield true (draw again), yield false
\* (the write then lands outside the vector), or stop the process.
SelInnerOutOfBounds ==
    /\ spc = "inner"
    /\ ~InVector(selected, target)
    /\ \/ /\ \E r \in usBits(sel_n) : target' = r
          /\ UNCHANGED <<spc, numSelected>>
       \/ /\ numSelected' = numSelected + 1
          /\ spc' = "while"
          /\ target' = target
       \/ /\ spc' = "crashed"
          /\ UNCHANGED <<numSelected, target>>
    /\ UNCHANGED <<ixVars, ioVars, qVars, trVars, sel_n, sel_k, selected, idxToSelected, pth, stat>>

SelInit ==
    /\ param = DefaultParam /\ tables = <<>> /\ rndArray = <<>> /\ pcsAll = <<>>
    /\ IoInit /\ QInit /\ TrainIdle /\ ProbesIdle /\ StatIdle
    /\ spc = "call"
    /\ sel_n \in 0..MaxSelN
    /\ sel_k \in 0..(MaxSelN + 1)
    /\ selected = <<>> /\ numSelected = 0 /\ idxToSelected = 0 /\ target = 0

SelNext ==
    \/ SelEnter
    \/ SelFor
    \/ SelWhile
    \/ SelInner
    \/ SelInnerOutOfBounds

SpecSel == SelInit /\ [][SelNext]_vars

(***************************************************************************)
(* trainAll(data, batchSize), statement by statement, with the threads it  *)
(* starts.  A thread of execution is an entry of workers: the basis slot   *)
(* it was given (&pcsAll[tableId]), how far trainSingleTable has got       *)
(* ("running", "written" once the slot holds its N rows, "finished" once   *)
(* it has returned) and whether it has been joined.  An element of threads *)
(* is the number of the worker it stands for, 0 when it stands for none.   *)
(***************************************************************************)
\* unsigned numBatches = param.L / batchSize
NumBatches(L, bs) == L \div bs

\* A driver that forgets the tables left over after the full batches.
NoRemaining(L, bs) == 0

\* unsigned remaining = param.L % batchSize
Remaining(L, bs) == L % bs

\* A join that returns at once, whatever the thread is doing.
JoinNoWait(w) == TRUE

\* threads[i].join() returns once the thread's function has returned.
JoinReturns(w) == w.st = "finished"

\* line 301
TrainEnter ==
    /\ tpc = "call"
    /\ batch' = 0
    /\ tpc' = "forBatch"
    /\ UNCHANGED <<ixVars, ioVars, qVars, selVars, batchSize, ti, threads, workers, cout, pth, stat>>

\* line 302 true: lines 303-306; false: lines 321-325.
TrainForBatch ==
    /\ tpc = "forBatch"
    /\ IF batch < NumBatches(param.L, batchSize)
       THEN threads' = [i \in 1..batchSize |-> 0] /\ tpc' = "spawn"
       ELSE threads' = [i \in 1..Remaining(param.L, batchSize) |-> 0] /\ tpc' = "spawnLast"
    /\ ti' = 0
    /\ UNCHANGED <<ixVars, ioVars, qVars, selVars, batchSize, batch, workers, cout, pth, stat>>

\* One iteration of a spawn loop (lines 307-313 and 326-332), or its end.
SpawnLoop(here, next, startk) ==
    /\ IF ti < Len(threads)
       THEN /\ workers' = Append(workers, [slot |-> startk + ti, st |-> "running",
                                            joined |-> FALSE])
            /\ threads' = [threads EXCEPT ![ti + 1] = Len(workers) + 1]
            /\ cout' = Append(cout, <<"added", startk + ti>>)
            /\ ti' = ti + 1
            /\ tpc' = here
       ELSE /\ ti' = 0
            /\ tpc' = next
            /\ UNCHANGED <<threads, workers, cout>>
    /\ UNCHANGED <<ixVars, ioVars, qVars, selVars, batchSize, batch, pth, stat>>

\* unsigned startk = batch * batchSize
TrainSpawn ==
    /\ tpc = "spawn"
    /\ SpawnLoop("spawn", "join", batch * batchSize)

\* unsigned startk = numBatches * batchSize
TrainSpawnLast ==
    /\ tpc = "spawnLast"
    /\ SpawnLoop("spawnLast", "joinLast", NumBatches(param.L, batchSize) * batchSize)

\* One iteration of a join loop (lines 315-317 and 334-336).
JoinLoop ==
    /\ ti < Len(threads)
    /\ JoinReturns(workers[threads[ti + 1]])
    /\ workers' = [workers EXCEPT ![threads[ti + 1]].joined = TRUE]
    /\ threads' = [threads EXCEPT ![ti + 1] = 0]
    /\ ti' = ti + 1
    /\ UNCHANGED <<ixVars, ioVars, qVars, selVars, tpc, batchSize, batch, cout, pth, stat>>

TrainJoin ==
    /\ tpc = "join"
    /\ JoinLoop

TrainJoinLast ==
    /\ tpc = "joinLast"
    /\ JoinLoop

\* line 318 and the end of the loop body: threads is destroyed, ++batch.
TrainBatchFinished ==
    /\ tpc = "join"
    /\ ti = Len(threads)
    /\ cout' = Append(cout, <<"batch", batch>>)
    /\ batch' = batch + 1
    /\ threads' = <<>>
    /\ tpc' = "forBatch"
    /\ UNCHANGED <<ixVars, ioVars, qVars, selVars, batchSize, ti, workers, pth, stat>>

\* line 337 and the return.
TrainLastFinished ==
    /\ tpc = "joinLast"
    /\ ti = Len(threads)
    /\ cout' = Append(cout, <<"last", batch>>)
    /\ threads' = <<>>
    /\ tpc' = "done"
    /\ UNCHANGED <<ixVars, ioVars, qVars, selVars, batchSize, batch, ti, workers, pth, stat>>

\* trainSingleTable, lines 261-269: the worker fills its slot.
WorkerWrites ==
    \E w \in 1..Len(workers) :
        /\ workers[w].st = "running"
        /\ \E choice \in 1..Len(Directions) :
              pcsAll' = [pcsAll EXCEPT ![workers[w].slot + 1] = PcaBasis(param, choice)]
        /\ workers' = [workers EXCEPT ![w].st = "written"]
        /\ UNCHANGED <<param, tables, rndArray, ioVars, qVars, selVars,
                       tpc, batchSize, batch, ti, threads, cout, pth, stat>>

\* trainSingleTable, lines 271-294: the rotation is computed and dropped,
\* return true.
WorkerReturns ==
    \E w \in 1..Len(workers) :
        /\ workers[w].st = "written"
        /\ workers' = [workers EXCEPT ![w].st = "finished"]
        /\ UNCHANGED <<ixVars, ioVars, qVars, selVars,
                       tpc, batchSize, batch, ti, threads, cout, pth, stat>>

\* trainAll is called on an index that reset(p) has configured.
TrainInit ==
    /\ \E l \in 1..MaxTrainL :
          LET p == [M |-> 2, L |-> l, D |-> DataDim, N |-> 1, S |-> 1, I |-> 0]
          IN /\ param = p
             /\ tables = Resize(<<>>, l, EmptyMap)
             /\ pcsAll = Resize(<<>>, l, <<>>)
             /\ rndArray = PushDraws(Resize(<<>>, l, <<>>), p, 0)
    /\ IoInit /\ QInit /\ SelIdle /\ ProbesIdle /\ StatIdle
    /\ tpc = "call"
    /\ batchSize \in 1..(MaxTrainL + 1)
    /\ batch = 0 /\ ti = 0 /\ threads = <<>> /\ workers = <<>> /\ cout = <<>>

TrainNext ==
    \/ TrainEnter
    \/ TrainForBatch
    \/ TrainSpawn
    \/ TrainJoin
    \/ TrainBatchFinished
    \/ TrainSpawnLast
    \/ TrainJoinLast
    \/ TrainLastFinished
    \/ WorkerWrites
    \/ WorkerReturns

SpecTrain == TrainInit /\ [][TrainNext]_vars

(***************************************************************************)
(* Properties of the index (checked under Spec).                           *)
(***************************************************************************)
\* Big-endian packing of a bit vector: the sum of b_i * 2^(N-1-i).
PackBits(bits) == SumSeq([i \in 1..Len(bits) |-> bits[i] * Pow2(Len(bits) - i)])

\* Every basis slot of the index holds N rows of D floats.
Trained ==
    /\ param.L >= 1
    /\ \A k \in 1..param.L :
          /\ Len(pcsAll[k]) = param.N
          /\ \A j \in 1..param.N : Len(pcsAll[k][j]) = param.D

TablesEmpty == \A k \in 1..Len(tables) : DOMAIN tables[k] = {}

\* How often row r is stored in bucket map tbl.
Occurrences(tbl, r) ==
    SumSeq([n \in 1..Len(SortedKeys(DOMAIN tbl)) |->
        LET members == tbl[SortedKeys(DOMAIN tbl)[n]]
        IN Cardinality({m \in 1..Len(members) : members[m] = r})])

Covered(tbls, L, rows) ==
    /\ \A k \in 1..L : \A r \in 0..(rows - 1) :
          /\ Cardinality({b \in DOMAIN tbls[k] :
                            \E m \in 1..Len(tbls[k][b]) : tbls[k][b][m] = r}) = 1
          /\ Occurrences(tbls[k], r) = 1
    /\ SumSeq([k \in 1..L |-> TableCount(tbls[k])]) = L * rows

\* C1: for every table k and every vector v, zero projections included,
\* getHashVal(k, v) is the big-endian packing of getHashBits(k, v).
C1_HashValPacksHashBits ==
    \A k \in 1..Len(pcsAll) : \A v \in Vecs :
        getHashVal(pcsAll[k], v) = PackBits(getHashBits(pcsAll[k], v))

\* C4: a hash(data) on a configured and trained index with empty bucket maps
\* leaves every row of data in exactly one bucket of every table, exactly once,
\* so the tables hold L * |data| members in all.
C4_HashCoversEveryRow ==
    [][\A data \in Datasets :
          (hash(data) /\ Trained /\ TablesEmpty) => Covered(tables', param.L, Len(data))]_vars

\* C4 witness: two trained tables hold the rows of a two-row dataset, two of
\* them sharing a bucket in one table.
C4_Witness ==
    /\ Trained /\ param.L >= 2
    /\ tables = HashRows(Resize(<<>>, param.L, EmptyMap), pcsAll, param.L, Matrix(2), 1)
    /\ \E k \in 1..param.L : \E b \in DOMAIN tables[k] : Len(tables[k][b]) = 2

SameIndex(ld, ix) ==
    /\ ld.param.M = ix.param.M /\ ld.param.L = ix.param.L /\ ld.param.D = ix.param.D
    /\ ld.param.N = ix.param.N /\ ld.param.S = ix.param.S
    /\ ld.rndArray = ix.rndArray
    /\ ld.pcsAll = ix.pcsAll
    /\ ld.tables = ix.tables

\* C9: save followed by load into a fresh index gives back param.{M,L,D,N,S},
\* every rnd[i], every bases[i] and every bucket with its members in order
\* (stated for the states in which save reads no vector past its end).
C9_SaveLoadRoundTrip ==
    (proc = "running" /\ loaded.done /\ SaveInBounds(Index)) => SameIndex(loaded, Index)

\* C10: getHashVal(k, v) < 2^N for a basis of N rows, and every bucket id that
\* insert or hash adds to table k is below 2^N.
C10_BucketIdBelowTwoToN ==
    /\ [](\A k \in 1..Len(pcsAll) : \A v \in Vecs :
             getHashVal(pcsAll[k], v) < Pow2(Len(pcsAll[k])))
    /\ [][\A k \in 1..Len(tables) :
             (k <= Len(tables') /\ k <= Len(pcsAll)) =>
                 \A b \in (DOMAIN tables'[k]) \ (DOMAIN tables[k]) : b < Pow2(Len(pcsAll[k]))]_vars

\* C10 witness: a table whose basis has two rows holds the largest id, 3.
C10_Witness ==
    \E k \in 1..Len(tables) : Len(pcsAll[k]) = 2 /\ 3 \in DOMAIN tables[k]

(***************************************************************************)
(* Properties of probe and KItemByProber (checked under SpecQuery and      *)
(* FairSpecQuery).                                                         *)
(***************************************************************************)
\* C5: probe(t, bid, prober) on a bucket that exists calls the prober once per
\* member, in insertion order, and returns the bucket size; on an absent id it
\* never calls the prober and returns 0.
C5_ProbeVisitsBucketInOrder ==
    [][\A pair \in ProbePairs :
          probe(pair[1], pair[2]) =>
              IF pair[2] \in DOMAIN tables[pair[1] + 1]
              THEN /\ visited' = visited \o tables[pair[1] + 1][pair[2]]
                   /\ numProbed' = Len(tables[pair[1] + 1][pair[2]])
              ELSE visited' = visited /\ numProbed' = 0]_vars

\* C5 witness: a probe returned 2 after visiting rows 0 and 1 of one bucket.
C5_Witness == qpc = "idle" /\ numProbed = 2 /\ visited = <<0, 1>>

\* C6: KItemByProber asks for a next pair only while fewer than numItems items
\* are probed and the prober has a next bucket; the pair it obtained is probed,
\* once, before the loop goes on; at return the quota is met or no bucket is
\* left; and the call returns.
C6_KItemByProberLoop ==
    /\ [](qpc = "getNextBID" => (getNumItemsProbed < numItems /\ nextBucketExisted))
    /\ [](qpc = "returned" => (getNumItemsProbed >= numItems \/ ~nextBucketExisted))
    /\ [][qpc = "getNextBID" => (qpc' = "probe" /\ buckets' = buckets - 1)]_vars
    /\ [][qpc = "probe" =>
            /\ qpc' = "while" /\ buckets' = buckets
            /\ visited' = visited \o
                  (IF probePair[2] \in DOMAIN tables[probePair[1] + 1]
                   THEN tables[probePair[1] + 1][probePair[2]] ELSE <<>>)]_vars
    /\ (qpc = "while" ~> qpc = "returned")

\* C6 witness: the call returned with the quota met while a bucket was left.
C6_Witness ==
    qpc = "returned" /\ numItems > 0 /\ getNumItemsProbed >= numItems /\ nextBucketExisted

(***************************************************************************)
(* Properties of selection (checked under SpecSel).                        *)
(***************************************************************************)
\* C2: with k <= n, whatever the draws, selection never counts an index twice,
\* never selects more than k, and returns a vector of length n with exactly k
\* entries true.
C2_SelectsExactlyK ==
    (sel_k <= sel_n /\ spc # "call") =>
        /\ Len(selected) = sel_n
        /\ numSelected = CountTrue(selected)
        /\ numSelected <= sel_k
        /\ spc = "done" => CountTrue(selected) = sel_k

\* C2 witness: a call with 1 <= k <= n returned after the sweep ran to its end,
\* so that the second phase topped the selection up.
C2_Witness ==
    /\ spc = "done" /\ sel_k >= 2 /\ sel_k < sel_n
    /\ idxToSelected = sel_n /\ CountTrue(selected) = sel_k

\* C3: a call with k > n ends in an InvalidArgument error handed to the caller.
C3_TooManyIsInvalidArgument ==
    (sel_k > sel_n /\ spc # "call") => spc = "InvalidArgument"

(***************************************************************************)
(* Properties of trainAll (checked under SpecTrain).                       *)
(***************************************************************************)
Slots == {workers[w].slot : w \in 1..Len(workers)}

Live == {w \in 1..Len(workers) : workers[w].st # "finished"}

CeilDiv(a, b) == (a + b - 1) \div b

\* The batches that started a worker and ran to their "finished" message.
BatchesRun ==
    Cardinality({j \in 2..Len(cout) :
        cout[j][1] \in {"batch", "last"} /\ cout[j - 1][1] = "added"})

\* C7: for every L >= 1 and batchSize >= 1, trainAll starts one worker per table
\* in [0, L) and no two for the same basis slot, and it returns only after all L
\* workers have finished and been joined, with all L bases populated.
C7_OneWorkerPerTable ==
    /\ \A w1, w2 \in 1..Len(workers) : w1 # w2 => workers[w1].slot # workers[w2].slot
    /\ Slots \subseteq 0..(param.L - 1)
    /\ tpc = "done" =>
          /\ Slots = 0..(param.L - 1)
          /\ \A w \in 1..Len(workers) : workers[w].st = "finished" /\ workers[w].joined
          /\ \A k \in 1..param.L :
                Len(pcsAll[k]) = param.N /\ \A j \in 1..param.N : Len(pcsAll[k][j]) = param.D

\* C7 witness: trainAll returned after one full batch of two workers and a
\* last batch of one.
C7_Witness ==
    tpc = "done" /\ batchSize = 2 /\ param.L = 3 /\ Len(workers) = 3

\* C8: at most batchSize workers run at a time, a batch starts its first worker
\* only when every worker started before has finished and been joined, and the
\* batches that start workers number ceil(L / batchSize).
C8_BatchesAreSequential ==
    /\ [](Cardinality(Live) <= batchSize)
    /\ [](\A w \in 1..Len(workers) :
             ~workers[w].joined => \E i \in 1..Len(threads) : threads[i] = w)
    /\ [][(Len(workers') > Len(workers) /\ ti = 0) =>
             \A w \in 1..Len(workers) : workers[w].st = "finished" /\ workers[w].joined]_vars
    /\ [](tpc = "done" => BatchesRun = CeilDiv(param.L, batchSize))

\* C8 witness: the second batch has started a worker; the first batch's two
\* workers are joined.
C8_Witness ==
    /\ batchSize = 2 /\ param.L = 3 /\ Len(workers) = 3
    /\ workers[3].st = "running" /\ workers[1].joined /\ workers[2].joined

(***************************************************************************)
(* Properties of reset and of the lifecycle (checked under Spec).          *)
(***************************************************************************)
\* C11: after every reset(p), on a fresh index or on a configured, trained or
\* populated one, tables, rndArray and pcsAll have exactly L entries each and
\* every entry is empty: no bucket, no random index, no basis row.
C11_ResetLeavesEverythingEmpty ==
    [][\A p \in Params :
          reset(p) =>
              /\ Len(tables') = p.L /\ Len(rndArray') = p.L /\ Len(pcsAll') = p.L
              /\ \A i \in 1..p.L :
                    /\ DOMAIN tables'[i] = {}
                    /\ rndArray'[i] = <<>>
                    /\ pcsAll'[i] = <<>>]_vars

\* C13: hash or insert invoked on an index that is not trained (Empty, or reset
\* but never trained) fails with StateError, so it stores nothing: the bucket
\* maps are unchanged.
C13_WrongStateLeavesMapsUnchanged ==
    [][/\ \A data \in Datasets : (hash(data) /\ ~Trained) => tables' = tables
       /\ \A key \in 0..(MaxRows - 1) :
             (insert(key, DataRow(key + 1)) /\ ~Trained) => tables' = tables]_vars

(***************************************************************************)
(* Properties of load (checked under SpecLoad).                            *)
(***************************************************************************)
\* The file is missing, or its last byte is.
LoadCannotSucceed == ~file.exists \/ file.cut > 0

\* C12: a load that cannot succeed (file missing, or a saved stream one byte
\* short) hands an error back to the caller: the process keeps running and the
\* target index stays Empty, with nothing taken from the partial stream.
C12_FailedLoadLeavesIndexEmpty ==
    [][(load /\ LoadCannotSucceed) => (proc' = "running" /\ loaded' = NotLoaded)]_vars

(***************************************************************************)
(* Properties of concurrent queries (checked under SpecProbes).            *)
(***************************************************************************)
\* The members of a bucket, none when the id is absent.
Members(tbl, bucketId) == IF bucketId \in DOMAIN tbl THEN tbl[bucketId] ELSE <<>>

\* C14: no step of probe or of KItemByProber, in any interleaving of the two
\* threads, changes the bucket maps (no bucket is created for an absent id),
\* and a probe that ran next to the other thread's probes has visited exactly
\* the members of its bucket, in order, as it does when run alone.
C14_ProbesLeaveMapsUnchanged ==
    /\ [][tables' = tables]_vars
    /\ [](pth.pc = "returned" =>
             /\ pth.vis = Members(tables[pth.t + 1], pth.bucketId)
             /\ pth.numProbed = Len(Members(tables[pth.t + 1], pth.bucketId)))

\* C14 witness: the second thread has returned from probing an absent bucket
\* id while the first is inside KItemByProber, with members already visited
\* and its next probe pending.
C14_Witness ==
    /\ pth.pc = "returned"
    /\ pth.bucketId \notin DOMAIN tables[pth.t + 1]
    /\ qpc = "probe"
    /\ visited # <<>>

(***************************************************************************)
(* Properties of getMeanAndSTD (checked under SpecStats).                  *)
(***************************************************************************)
\* C15: for every dataset getMeanAndSTD runs to completion and returns four
\* vectors of length N; the variance is divided by the conditional count; a
\* dimension with no non-negative (resp. no negative) projection has mean_pos
\* (resp. mean_neg) 0; and the assertions of the function hold.
C15_StatsCompleteAndAssertionsHold ==
    /\ stat.pc # "aborted"
    /\ stat.pc = "returned" =>
          /\ Len(StatResult) = 4
          /\ \A r \in 1..4 : Len(StatResult[r]) = param.N
          /\ \A i \in 1..param.N :
                /\ stat.countPositive[i] = 0 => stat.sumPositive[i].num = 0
                /\ stat.countNegative[i] = 0 => stat.sumNegative[i].num = 0
                /\ stat.countPositive[i] # 0 =>
                      stat.stdPositive[i].sqrt.den =
                          stat.sumPositive[i].den * stat.sumPositive[i].den * stat.countPositive[i]
                /\ stat.countNegative[i] # 0 =>
                      stat.stdNegative[i].sqrt.den =
                          stat.sumNegative[i].den * stat.sumNegative[i].den * stat.countNegative[i]
          /\ AssertionsHold(stat.stdPositive, stat.stdNegative)

====
